---- MODULE Spec2Model ----
(***************************************************************************)
(* Model of the entity-store collection engine (packages/core):            *)
(* createState, the Mutation Set (createActions), the entity proxy of      *)
(* createEntityProxy and the getters the properties below read.            *)
(*                                                                         *)
(* Identifiers are numbers or strings.  An identifier is encoded as an     *)
(* integer: the number n is n, the string "n" (decimal digits of n) is     *)
(* -(n+1).  byId is a JavaScript object, so its keys are String(id): the   *)
(* number 1 and the string "1" share the key Key(id) = 1, while allIds     *)
(* and active are arrays compared with === / includes, where they differ.  *)
(*                                                                         *)
(* An object (entity, payload) is the sequence of its own keys in          *)
(* Object.keys order, each with its value.  A $meta object is a cell of    *)
(* heap, and a wrapped entity holds the reference of its cell, so that two *)
(* wrapped entities can come to share one $meta object.  Date.now() is the *)
(* logical clock now, which ticks once per operation.  returned is the     *)
(* last call of a getter or of sortEntities, with what it returned, or     *)
(* what a caller has read of the container before a call.                  *)
(* The variables byId .. heap are the container of one createState() call; *)
(* second is the container of a second call, where there is one.           *)
(***************************************************************************)
EXTENDS Integers, Sequences, FiniteSets, TLC

VARIABLES byId, allIds, current, currentById, active, heap, now, last, returned,
          second

vars == <<byId, allIds, current, currentById, active, heap, now, last, returned,
          second>>

----------------------------------------------------------------------------
(* Bounds *)

MaxTime == 3        \* operations per behaviour (clock readings)
MaxMany == 2        \* longest list given to createMany/updateMany/deleteMany
MaxList == 3        \* longest list given to sortEntities

----------------------------------------------------------------------------
(* Identifiers and values *)

Num(n) == n
Str(n) == -(n + 1)
IsStr(id) == id < 0
\* String(id), the property key under which byId files id
Key(id) == IF IsStr(id) THEN -id - 1 ELSE id

NumIds == {Num(0), Num(1)}
StrIds == {Str(1)}
Ids == NumIds \cup StrIds
\* the identifiers of a store stocked before the operations under study
StockIds == Ids \cup {Num(2)}

Null == -1000
NoEntity == [null |-> TRUE]

FieldNames == {"name"}
Values == {0, 1}
IsDirtyKey == "$isDirty"
MetaKey == "$meta"
IdKey == "id"

----------------------------------------------------------------------------
(* Objects as key/value sequences *)

\* An entity or payload handed in by the caller: its own keys in Object.keys
\* order.  The value of the $isDirty key, carried by a payload made by
\* spreading a wrapped entity, is written 1 for true and 0 for false; the value
\* of its $meta key is the reference of a $meta object.
Keys(obj) == {obj[i].k : i \in 1 .. Len(obj)}
Get(obj, key) == obj[CHOOSE j \in 1 .. Len(obj) : obj[j].k = key].v
Prop(key, value) == [k |-> key, v |-> value]
\* the order in which the keys of an entity are inserted
KeyOrder == <<IdKey, "name">>

\* the lists of the non-id fields a caller can give, in a fixed key order
FieldLists == {<<>>} \cup {<<Prop("name", a)>> : a \in Values}

\* T extends WithId: every entity and every payload carries an id
Entities == {<<Prop(IdKey, id)>> \o fl : id \in Ids, fl \in FieldLists}

\* { ...wrapped, ...updates }: the keys of the wrapped entity in their order
\* (the keys it was wrapped with, $isDirty, $meta, the keys added later), each
\* with the value updates gives it if any, then the keys only updates has
Spread(wrapped, updates) ==
  LET value(f) == IF f \in Keys(updates) THEN Get(updates, f) ELSE wrapped.fields[f]
      props(S) == LET ks == SelectSeq(KeyOrder, LAMBDA f : f \in S)
                  IN [i \in 1 .. Len(ks) |-> Prop(ks[i], value(ks[i]))]
  IN props(DOMAIN wrapped.fields \ wrapped.after)
       \o <<Prop(IsDirtyKey, IF wrapped.isDirty THEN 1 ELSE 0),
            Prop(MetaKey, wrapped.meta)>>
       \o props(wrapped.after)
       \o SelectSeq(updates, LAMBDA p : p.k \notin DOMAIN wrapped.fields)

----------------------------------------------------------------------------
(* createEntityProxy *)

\* The reference of the $meta object allocated at time t for the wrapped entity
\* filed under the key slot of byId, or held as current (CurrentSlot): the
\* objects allocated for one place at one time replace each other.
CurrentSlot == Cardinality({Key(id) : id \in StockIds})
Ref(t, slot) == (CurrentSlot + 1) * t + slot

\* a target whose $meta is stamped as updated at wrap time
createEntityProxy_Stamped(h, ref, entity, t) ==
  [obj |-> [fields |-> [key \in Keys(entity) \ {IsDirtyKey, MetaKey} |->
                          Get(entity, key)],
            after |-> {},
            isDirty |-> FALSE,
            meta |-> ref],
   heap |-> (ref :> [changedFields |-> {}, createdAt |-> t, updatedAt |-> t]) @@ h]

\* The target object wrapped by the proxy and the heap holding its new $meta:
\* fields are the entity's own keys, after those of them that follow $isDirty
\* in key order (none unless the entity is itself a copy of a wrapped entity).
createEntityProxy(h, ref, entity, t) ==
  LET flag == {j \in 1 .. Len(entity) : entity[j].k = IsDirtyKey}
  IN [obj |-> [fields |-> [key \in Keys(entity) \ {IsDirtyKey, MetaKey} |->
                             Get(entity, key)],
               after |-> {entity[j].k : j \in {i \in 1 .. Len(entity) :
                                                 \E f \in flag : i > f}}
                           \ {MetaKey},
               isDirty |-> FALSE,
               meta |-> ref],
      heap |-> (ref :> [changedFields |-> {}, createdAt |-> t, updatedAt |-> Null])
                 @@ h]

\* a set trap that marks the entity without comparing with the previous value
ProxySet_NoCompare(px, prop, value, t) ==
  IF prop = IsDirtyKey
  THEN [px EXCEPT !.obj.isDirty = (value = 1)]
  ELSE IF prop = MetaKey
  THEN [px EXCEPT !.obj.meta = value]
  ELSE IF prop \in DOMAIN px.obj.fields
  THEN [px EXCEPT !.obj.fields[prop] = value,
                  !.obj.isDirty = TRUE,
                  !.heap[px.obj.meta].changedFields = @ \cup {prop},
                  !.heap[px.obj.meta].updatedAt = t]
  ELSE [px EXCEPT !.obj.fields = (prop :> value) @@ px.obj.fields,
                  !.obj.after = @ \cup {prop}]

\* a set trap that tracks a write to a key the target did not have
ProxySet_TrackNew(px, prop, value, t) ==
  IF prop = IsDirtyKey
  THEN [px EXCEPT !.obj.isDirty = (value = 1)]
  ELSE IF prop = MetaKey
  THEN [px EXCEPT !.obj.meta = value]
  ELSE LET previous == IF prop \in DOMAIN px.obj.fields
                       THEN px.obj.fields[prop] ELSE Null
           written == IF prop \in DOMAIN px.obj.fields
                      THEN [px EXCEPT !.obj.fields[prop] = value]
                      ELSE [px EXCEPT !.obj.fields = (prop :> value) @@ px.obj.fields,
                                      !.obj.after = @ \cup {prop}]
       IN IF previous # value
          THEN [written EXCEPT !.obj.isDirty = TRUE,
                               !.heap[px.obj.meta].changedFields = @ \cup {prop},
                               !.heap[px.obj.meta].updatedAt = t]
          ELSE written

\* the proxy's set trap: obj[prop] = value at time t, on the target px.obj in
\* the heap px.heap
ProxySet(px, prop, value, t) ==
  IF prop = IsDirtyKey
  THEN [px EXCEPT !.obj.isDirty = (value = 1)]
  ELSE IF prop = MetaKey
  THEN [px EXCEPT !.obj.meta = value]
  ELSE IF prop \in DOMAIN px.obj.fields
  THEN LET previous == px.obj.fields[prop]
           written == [px EXCEPT !.obj.fields[prop] = value]
       IN IF previous # value
          THEN [written EXCEPT !.obj.isDirty = TRUE,
                               !.heap[px.obj.meta].changedFields = @ \cup {prop},
                               !.heap[px.obj.meta].updatedAt = t]
          ELSE written
  ELSE [px EXCEPT !.obj.fields = (prop :> value) @@ px.obj.fields,
                  !.obj.after = @ \cup {prop}]

----------------------------------------------------------------------------
(* The state container *)

\* state.entities, with the heap of the $meta objects (none at construction)
createState ==
  [byId |-> <<>>, allIds |-> <<>>, current |-> NoEntity,
   currentById |-> Null, active |-> <<>>, heap |-> <<>>]

State == [byId |-> byId, allIds |-> allIds, current |-> current,
          currentById |-> currentById, active |-> active, heap |-> heap]

\* the parts of a container that are objects of their own: two containers that
\* share one see each other's writes to it
Parts == {"byId", "allIds", "active"}

\* createState() returning a shallow copy of a default state kept by the module
createStateAfter_Shallow(first) == [state |-> first, shares |-> Parts]

\* createState() called once the container first exists: the container it
\* returns and the parts of first it is made of, none, as every call evaluates
\* the object and array literals anew
createStateAfter(first) == [state |-> createState, shares |-> {}]

\* the parts an operation gives a new array instead of writing the old one
Reassigned(op) ==
  IF op = "deleteOne" THEN {"allIds", "active"}
  ELSE IF op = "resetActive" THEN {"active"}
  ELSE {}

\* what the container other holds once operation op has made written of a
\* container it shares the parts shares with: the shared parts that op writes
\* in place, and with byId the $meta objects of its entities
Seen(other, written, shares, op) ==
  LET inPlace == shares \ Reassigned(op)
  IN [other EXCEPT !.byId = IF "byId" \in inPlace THEN written.byId ELSE @,
                   !.heap = IF "byId" \in inPlace THEN written.heap ELSE @,
                   !.allIds = IF "allIds" \in inPlace THEN written.allIds ELSE @,
                   !.active = IF "active" \in inPlace THEN written.active ELSE @]

Includes(seq, x) == \E i \in 1 .. Len(seq) : seq[i] = x
Without(seq, x) == SelectSeq(seq, LAMBDA y : y # x)
\* state.entities.byId[id] is truthy
Stored(s, id) == Key(id) \in DOMAIN s.byId

\* the wrapped entities of the state and the $meta objects they reference;
\* a $meta object no wrapped entity references is dropped
Wrappers(s) ==
  {s.byId[k] : k \in DOMAIN s.byId} \cup (IF s.current = NoEntity THEN {} ELSE {s.current})
Collect(s) ==
  [s EXCEPT !.heap = [ref \in {w.meta : w \in Wrappers(s)} |-> s.heap[ref]]]

----------------------------------------------------------------------------
(* The Mutation Set, as functions from state to state *)

\* createOne without the membership test: the identifier is always pushed
createOne_AlwaysPush(s, payload, t) ==
  LET id == Get(payload, IdKey)
      px == createEntityProxy(s.heap, Ref(t, Key(id)), payload, t)
  IN [s EXCEPT !.allIds = Append(s.allIds, id),
               !.byId = (Key(id) :> px.obj) @@ s.byId,
               !.heap = px.heap]

\* createOne that writes the payload's keys onto an entity already stored
\* instead of replacing it
createOne_Merge(s, payload, t) ==
  LET id == Get(payload, IdKey)
      ids == IF ~Stored(s, id) /\ ~Includes(s.allIds, id)
             THEN Append(s.allIds, id) ELSE s.allIds
      px == IF Stored(s, id)
            THEN [obj |-> [s.byId[Key(id)] EXCEPT
                             !.fields = [key \in Keys(payload) |-> Get(payload, key)]
                                          @@ s.byId[Key(id)].fields],
                  heap |-> s.heap]
            ELSE createEntityProxy(s.heap, Ref(t, Key(id)), payload, t)
  IN [s EXCEPT !.allIds = ids,
               !.byId = (Key(id) :> px.obj) @@ s.byId,
               !.heap = px.heap]

createOne(s, payload, t) ==
  LET id == Get(payload, IdKey)
      ids == IF ~Stored(s, id) /\ ~Includes(s.allIds, id)
             THEN Append(s.allIds, id) ELSE s.allIds
      px == createEntityProxy(s.heap, Ref(t, Key(id)), payload, t)
  IN [s EXCEPT !.allIds = ids,
               !.byId = (Key(id) :> px.obj) @@ s.byId,
               !.heap = px.heap]

RECURSIVE WriteKeys(_, _, _, _)
\* Object.keys(payload).forEach(k => proxy[k] = payload[k]), from key i on
WriteKeys(px, payload, i, t) ==
  IF i > Len(payload) THEN px
  ELSE WriteKeys(ProxySet(px, payload[i].k, payload[i].v, t), payload, i + 1, t)

\* updateOne without the create fallback
updateOne_NoUpsert(s, id, payload, t) ==
  IF Stored(s, id)
  THEN LET px == WriteKeys([obj |-> s.byId[Key(id)], heap |-> s.heap], payload, 1, t)
       IN [s EXCEPT !.byId[Key(id)] = px.obj, !.heap = px.heap]
  ELSE s

updateOne(s, id, payload, t) ==
  IF Stored(s, id)
  THEN LET px == WriteKeys([obj |-> s.byId[Key(id)], heap |-> s.heap], payload, 1, t)
       IN [s EXCEPT !.byId[Key(id)] = px.obj, !.heap = px.heap]
  ELSE createOne(s, payload, t)

\* deleteOne that leaves active alone
deleteOne_KeepActive(s, id) ==
  [s EXCEPT !.byId = [k \in DOMAIN s.byId \ {Key(id)} |-> s.byId[k]],
            !.allIds = Without(s.allIds, id)]

\* deleteOne that leaves the identifier listed in allIds
deleteOne_KeepListed(s, id) ==
  [s EXCEPT !.byId = [k \in DOMAIN s.byId \ {Key(id)} |-> s.byId[k]],
            !.active = Without(s.active, id)]

\* deleteOne that also clears currentById when it points at the identifier
deleteOne_ClearsPointer(s, id) ==
  [s EXCEPT !.byId = [k \in DOMAIN s.byId \ {Key(id)} |-> s.byId[k]],
            !.allIds = Without(s.allIds, id),
            !.active = Without(s.active, id),
            !.currentById = IF @ = id THEN Null ELSE @]

deleteOne(s, id) ==
  [s EXCEPT !.byId = [k \in DOMAIN s.byId \ {Key(id)} |-> s.byId[k]],
            !.allIds = Without(s.allIds, id),
            !.active = Without(s.active, id)]

RECURSIVE createMany(_, _, _)
createMany(s, payload, t) ==
  IF payload = <<>> THEN s
  ELSE createMany(createOne(s, Head(payload), t), Tail(payload), t)

RECURSIVE updateMany_LastFirst(_, _, _)
\* updateOne applied to the elements of the list from the last to the first
updateMany_LastFirst(s, payload, t) ==
  IF payload = <<>> THEN s
  ELSE updateOne(updateMany_LastFirst(s, Tail(payload), t),
                 Get(Head(payload), IdKey), Head(payload), t)

RECURSIVE updateMany(_, _, _)
updateMany(s, payload, t) ==
  IF payload = <<>> THEN s
  ELSE updateMany(updateOne(s, Get(Head(payload), IdKey), Head(payload), t),
                  Tail(payload), t)

RECURSIVE deleteMany(_, _)
deleteMany(s, ids) ==
  IF ids = <<>> THEN s
  ELSE deleteMany(deleteOne(s, Head(ids)), Tail(ids))

\* setCurrent that also files the wrapped entity in byId
setCurrent_AlsoStores(s, payload, t) ==
  LET px == createEntityProxy(s.heap, Ref(t, CurrentSlot), payload, t)
  IN [s EXCEPT !.current = px.obj,
               !.byId = (Key(Get(payload, IdKey)) :> px.obj) @@ s.byId,
               !.heap = px.heap]

setCurrent(s, payload, t) ==
  LET px == createEntityProxy(s.heap, Ref(t, CurrentSlot), payload, t)
  IN [s EXCEPT !.current = px.obj, !.heap = px.heap]

removeCurrent(s) == [s EXCEPT !.current = NoEntity]

\* setCurrentById without the test that byId holds the identifier
setCurrentById_Always(s, id) == [s EXCEPT !.currentById = id]

setCurrentById(s, id) == IF Stored(s, id) THEN [s EXCEPT !.currentById = id] ELSE s

removeCurrentById(s) == [s EXCEPT !.currentById = Null]

\* setActive that puts the identifier first
setActive_Prepend(s, id) ==
  IF ~Includes(s.active, id) /\ Stored(s, id)
  THEN [s EXCEPT !.active = <<id>> \o @] ELSE s

\* setActive as a toggle: a second call removes the identifier
setActive_Toggle(s, id) ==
  IF Includes(s.active, id) THEN [s EXCEPT !.active = Without(@, id)]
  ELSE IF Stored(s, id) THEN [s EXCEPT !.active = Append(@, id)] ELSE s

setActive(s, id) ==
  IF ~Includes(s.active, id) /\ Stored(s, id)
  THEN [s EXCEPT !.active = Append(@, id)] ELSE s

resetActive(s) == [s EXCEPT !.active = <<>>]

setIsDirty(s, id) ==
  IF Stored(s, id) THEN [s EXCEPT !.byId[Key(id)].isDirty = TRUE] ELSE s

\* setIsNotDirty that resets the flag only
setIsNotDirty_FlagOnly(s, id) ==
  IF Stored(s, id) THEN [s EXCEPT !.byId[Key(id)].isDirty = FALSE] ELSE s

\* actions/setIsNotDirty.ts: resets the dirty state and clears the changed fields
setIsNotDirty(s, id) ==
  IF Stored(s, id)
  THEN [s EXCEPT !.byId[Key(id)].isDirty = FALSE,
                 !.heap[s.byId[Key(id)].meta].changedFields = {}]
  ELSE s

updateField(s, field, value, id, t) ==
  IF Stored(s, id)
  THEN LET px == ProxySet([obj |-> s.byId[Key(id)], heap |-> s.heap], field, value, t)
       IN [s EXCEPT !.byId[Key(id)] = px.obj, !.heap = px.heap]
  ELSE s

----------------------------------------------------------------------------
(* The sort utility *)

\* A sort key is undefined (Null), a number n or a string of decimal digits,
\* encoded as the identifiers are: String(n) is Str(n).
TypeOf(v) == IF v = Null THEN "undefined" ELSE IF IsStr(v) THEN "string" ELSE "number"

RECURSIVE Digits(_)
\* the decimal digits of n, the characters of String(n)
Digits(n) == IF n < 10 THEN <<n>> ELSE Append(Digits(n \div 10), n % 10)

\* a < b on two strings: by the first character that differs, a prefix first
StringLess(a, b) ==
  \/ \E i \in 1 .. Len(a) :
       /\ i <= Len(b)
       /\ a[i] < b[i]
       /\ \A j \in 1 .. i - 1 : a[j] = b[j]
  \/ /\ Len(a) < Len(b)
     /\ \A j \in 1 .. Len(a) : a[j] = b[j]

\* aValue < bValue after "if (typeof aValue !== typeof bValue)" has turned both
\* into strings: numeric on two numbers, by characters otherwise
Less(aValue, bValue) ==
  IF TypeOf(aValue) = "number" /\ TypeOf(bValue) = "number"
  THEN aValue < bValue
  ELSE StringLess(Digits(Key(aValue)), Digits(Key(bValue)))

\* SortOptions: orderBy is absent, a field name or a function of the entity;
\* sortBy is 'asc', 'desc' or omitted.  NoOptions is the options argument left out.
NoOptions == [given |-> FALSE]
Absent == [kind |-> "absent"]
Field(name) == [kind |-> "field", name |-> name]
Function(name) == [kind |-> "function", name |-> name]
Options(orderBy, sortBy) == [given |-> TRUE, orderBy |-> orderBy, sortBy |-> sortBy]
\* !options?.orderBy
NoOrderBy(options) == ~options.given \/ options.orderBy = Absent

\* a[orderBy]: the value of a property of a wrapped entity, undefined if it
\* has no such property
Read(a, name) == IF name \in DOMAIN a.fields THEN a.fields[name] ELSE Null

\* the value an entity is ordered by: orderBy(a) for a function (the functions
\* modelled are e => e[name]), else a[orderBy] if it is a string or a number
\* and undefined if not
SortValue(a, orderBy) ==
  IF orderBy.kind = "function"
  THEN Read(a, orderBy.name)
  ELSE LET aRaw == Read(a, orderBy.name)
       IN IF TypeOf(aRaw) = "string" \/ TypeOf(aRaw) = "number" THEN aRaw ELSE Null

\* the comparator putting a before b when their values are equal
Compare_TiesFirst(a, b, options) ==
  LET sortBy == IF options.sortBy = "omitted" THEN "asc" ELSE options.sortBy
      aValue == SortValue(a, options.orderBy)
      bValue == SortValue(b, options.orderBy)
      comparison == IF Less(bValue, aValue) THEN 1 ELSE -1
  IN IF aValue = Null /\ bValue = Null THEN 0
     ELSE IF aValue = Null THEN (IF sortBy = "asc" THEN -1 ELSE 1)
     ELSE IF bValue = Null THEN (IF sortBy = "asc" THEN 1 ELSE -1)
     ELSE IF sortBy = "asc" THEN comparison ELSE -comparison

\* the comparator putting absent values first whatever the direction
Compare_NullsFirst(a, b, options) ==
  LET sortBy == IF options.sortBy = "omitted" THEN "asc" ELSE options.sortBy
      aValue == SortValue(a, options.orderBy)
      bValue == SortValue(b, options.orderBy)
      comparison == IF Less(aValue, bValue) THEN -1
                    ELSE IF Less(bValue, aValue) THEN 1 ELSE 0
  IN IF aValue = Null /\ bValue = Null THEN 0
     ELSE IF aValue = Null THEN -1
     ELSE IF bValue = Null THEN 1
     ELSE IF sortBy = "asc" THEN comparison ELSE -comparison

\* the comparator sortEntities gives to sort
Compare(a, b, options) ==
  LET sortBy == IF options.sortBy = "omitted" THEN "asc" ELSE options.sortBy
      aValue == SortValue(a, options.orderBy)
      bValue == SortValue(b, options.orderBy)
      comparison == IF Less(aValue, bValue) THEN -1
                    ELSE IF Less(bValue, aValue) THEN 1 ELSE 0
  IN IF aValue = Null /\ bValue = Null THEN 0
     ELSE IF aValue = Null THEN (IF sortBy = "asc" THEN -1 ELSE 1)
     ELSE IF bValue = Null THEN (IF sortBy = "asc" THEN 1 ELSE -1)
     ELSE IF sortBy = "asc" THEN comparison ELSE -comparison

\* Array.prototype.sort as the engine runs it on a short array: the run the
\* array starts with is found (and reversed if it strictly descends), then each
\* later element is put in its place by binary insertion
RECURSIVE CountRun(_, _, _, _)
CountRun(a, options, isDescending, idx) ==
  IF idx > Len(a) THEN idx - 1
  ELSE LET order == Compare(a[idx], a[idx - 1], options)
       IN IF (isDescending /\ order >= 0) \/ (~isDescending /\ order < 0)
          THEN idx - 1
          ELSE CountRun(a, options, isDescending, idx + 1)

Reverse(a) == [i \in 1 .. Len(a) |-> a[Len(a) + 1 - i]]

RECURSIVE BinarySearch(_, _, _, _, _)
BinarySearch(a, options, pivot, left, right) ==
  IF left >= right THEN left
  ELSE LET mid == left + ((right - left) \div 2)
       IN IF Compare(pivot, a[mid], options) < 0
          THEN BinarySearch(a, options, pivot, left, mid)
          ELSE BinarySearch(a, options, pivot, mid + 1, right)

RECURSIVE BinaryInsertionSort(_, _, _)
BinaryInsertionSort(a, options, start) ==
  IF start > Len(a) THEN a
  ELSE LET pivot == a[start]
           left == BinarySearch(a, options, pivot, 1, start)
           moved == [i \in 1 .. Len(a) |->
                       IF i < left \/ i > start THEN a[i]
                       ELSE IF i = left THEN pivot ELSE a[i - 1]]
       IN BinaryInsertionSort(moved, options, start + 1)

ArraySort(a, options) ==
  IF Len(a) < 2 THEN a
  ELSE LET isDescending == Compare(a[2], a[1], options) < 0
           runLength == CountRun(a, options, isDescending, 3)
           run == IF isDescending
                  THEN Reverse(SubSeq(a, 1, runLength)) \o SubSeq(a, runLength + 1, Len(a))
                  ELSE a
       IN BinaryInsertionSort(run, options, runLength + 1)

\* sortEntities sorting the array it is given, without copying it
sortEntities_InPlace(entities, options) ==
  IF NoOrderBy(options)
  THEN [entities |-> entities, value |-> entities, copied |-> FALSE]
  ELSE [entities |-> ArraySort(entities, options),
        value |-> ArraySort(entities, options), copied |-> FALSE]

\* sortEntities(entities, options): value is the array returned, entities the
\* array given as the call leaves it, copied whether value is a new array
sortEntities(entities, options) ==
  IF NoOrderBy(options)
  THEN [entities |-> entities, value |-> entities, copied |-> FALSE]
  ELSE [entities |-> entities, value |-> ArraySort(entities, options), copied |-> TRUE]

----------------------------------------------------------------------------
(* The getters *)

Undefined == [undefined |-> TRUE]

\* a wrapped entity as its reader sees it: its fields, its $isDirty and the
\* content of its $meta
Wrapped(s, obj) ==
  [fields |-> obj.fields,
   isDirty |-> obj.isDirty,
   changedFields |-> s.heap[obj.meta].changedFields,
   createdAt |-> s.heap[obj.meta].createdAt,
   updatedAt |-> s.heap[obj.meta].updatedAt]

getOne(s, id) == IF Stored(s, id) THEN Wrapped(s, s.byId[Key(id)]) ELSE Undefined
getCurrent(s) == IF s.current = NoEntity THEN NoEntity ELSE Wrapped(s, s.current)
\* a number or string that JavaScript takes as true: not null, not 0
Truthy(id) == id # Null /\ id # Num(0)
getCurrentById(s) ==
  IF Truthy(s.currentById) THEN getOne(s, s.currentById) ELSE NoEntity
isAlreadyInStore(s, id) == Includes(s.allIds, id)
isAlreadyActive(s, id) == Includes(s.active, id)
isDirty(s, id) == IF Stored(s, id) THEN s.byId[Key(id)].isDirty ELSE FALSE
getIsEmpty(s) == Len(s.allIds) = 0

RECURSIVE ArrayFromSet(_, _)
\* Array.from(new Set(ids)): seen, then the elements of ids not yet seen, each
\* where it first occurs
ArrayFromSet(seen, ids) ==
  IF ids = <<>> THEN seen
  ELSE ArrayFromSet(IF Includes(seen, Head(ids)) THEN seen ELSE Append(seen, Head(ids)),
                    Tail(ids))

\* getMissingIds looking the identifiers up in byId instead of allIds
getMissingIds_ByKey(s, ids, canHaveDuplicates) ==
  LET filteredIds == SelectSeq(ids, LAMBDA id : ~Stored(s, id))
  IN IF canHaveDuplicates # "true"
     THEN ArrayFromSet(<<>>, filteredIds)
     ELSE filteredIds

\* getMissingIds(ids, canHaveDuplicates) for an array ids; canHaveDuplicates is
\* "true", "false" or "omitted"
getMissingIds(s, ids, canHaveDuplicates) ==
  LET filteredIds == SelectSeq(ids, LAMBDA id : ~Includes(s.allIds, id))
  IN IF canHaveDuplicates # "true"
     THEN ArrayFromSet(<<>>, filteredIds)
     ELSE filteredIds

RECURSIVE ObjectValues(_)
\* Object.values(obj) for an object whose keys are all integer keys, as the
\* keys String(id) of the identifiers modelled are: the values in ascending
\* order of their keys, whatever the order the keys were set in
ObjectValues(obj) ==
  IF DOMAIN obj = {} THEN <<>>
  ELSE LET key == CHOOSE k \in DOMAIN obj : \A j \in DOMAIN obj : k <= j
       IN <<obj[key]>> \o ObjectValues([j \in DOMAIN obj \ {key} |-> obj[j]])

\* The filter argument of the queries: a value that is not a function, or one
\* of the functions e => e[field] >= value and e => e[field] === value
NotCallable == [callable |-> FALSE]
AtLeast(field, value) == [callable |-> TRUE, test |-> ">=", field |-> field, value |-> value]
Is(field, value) == [callable |-> TRUE, test |-> "===", field |-> field, value |-> value]
\* filter(item)
Test(filter, item) ==
  LET v == Read(item, filter.field)
  IN IF filter.test = ">="
     THEN TypeOf(v) = "number" /\ v >= filter.value
     ELSE v = filter.value

RECURSIVE Reduce(_, _, _, _)
\* allIds.reduce((acc, id) => ..., {}): acc[id] = byId[id] for each id of ids,
\* in turn, whose byId[id] is set and passes the filter
Reduce(s, filter, ids, acc) ==
  IF ids = <<>> THEN acc
  ELSE LET id == Head(ids)
       IN Reduce(s, filter, Tail(ids),
                 IF ~Stored(s, id) \/ ~Test(filter, s.byId[Key(id)])
                 THEN acc
                 ELSE (Key(id) :> s.byId[Key(id)]) @@ acc)

\* getWhere keeping the entities that fail the filter
getWhere_Inverted(s, filter, options) ==
  IF ~filter.callable THEN s.byId
  ELSE LET passes == Reduce(s, filter, s.allIds, <<>>)
       IN [k \in DOMAIN s.byId \ DOMAIN passes |-> s.byId[k]]

getWhere(s, filter, options) ==
  IF ~filter.callable THEN s.byId ELSE Reduce(s, filter, s.allIds, <<>>)

\* getWhereArray forgetting to sort
getWhereArray_Unsorted(s, filter, options) ==
  IF ~filter.callable THEN ObjectValues(s.byId)
  ELSE ObjectValues(Reduce(s, filter, s.allIds, <<>>))

getWhereArray(s, filter, options) ==
  IF ~filter.callable THEN ObjectValues(s.byId)
  ELSE LET filteredArray == ObjectValues(Reduce(s, filter, s.allIds, <<>>))
       IN IF NoOrderBy(options)
          THEN filteredArray
          ELSE sortEntities(filteredArray, options).value

\* array[0]
First(array) == IF array = <<>> THEN Undefined ELSE array[1]

getFirstWhere(s, filter) ==
  IF ~filter.callable THEN First(ObjectValues(s.byId))
  ELSE First(ObjectValues(Reduce(s, filter, s.allIds, <<>>)))


----------------------------------------------------------------------------
(* Inputs *)

\* the entity lists given to createMany and updateMany
ManyFieldLists == {<<Prop("name", 1)>>}
ManyEntities == {<<Prop(IdKey, id)>> \o fl : id \in NumIds, fl \in ManyFieldLists}
Lists(S) == UNION {[1 .. n -> S] : n \in 0 .. MaxMany}

\* { ...wrapped, ...updates } for the wrapped entities a caller of updateOne(id, _)
\* copies in state s: the one stored under id, copied at the call or earlier,
\* while it was still clean, and current, copied at the call
Copies(s, id) ==
  {Spread(w, updates) :
     w \in (IF Stored(s, id)
            THEN {s.byId[Key(id)], [s.byId[Key(id)] EXCEPT !.isDirty = FALSE]}
            ELSE {})
            \cup (IF s.current = NoEntity THEN {} ELSE {s.current}),
     updates \in FieldLists}

\* the payloads given to updateOne(id, _) in state s: an entity with that id,
\* an entity with any id and no other field, or a copy of a wrapped entity
UpdatePayloads(s, id) ==
  {p \in Entities : Get(p, IdKey) = id \/ Len(p) = 1} \cup Copies(s, id)

\* the entities given to setCurrent
CurrentEntities == {<<Prop(IdKey, id), Prop("name", 0)>> : id \in Ids}

\* the fields a caller can write and the values it can write to each
AllFields == {IdKey} \cup FieldNames
ValuesOf(field) == IF field = IdKey THEN Ids ELSE Values

----------------------------------------------------------------------------
(* The specification: one action per operation of createActions *)

\* the last operation called: its name, its identifier argument, whether byId
\* held the identifier and whether active held it when it was called
Op(name, id, hit) ==
  [op |-> name, id |-> id, hit |-> hit, act |-> Includes(active, id)]

\* no getter and no sort has been called
NoCall == [fn |-> "none"]

\* createState() has been called once only
NoContainer == [none |-> TRUE]

\* the container becomes s
Write(s) ==
  /\ byId' = s.byId
  /\ allIds' = s.allIds
  /\ current' = s.current
  /\ currentById' = s.currentById
  /\ active' = s.active
  /\ heap' = Collect(s).heap

Set(s) ==
  /\ Write(s)
  /\ returned' = returned
  /\ second' = second

Tick == now < MaxTime /\ now' = now + 1

Init ==
  /\ byId = createState.byId
  /\ allIds = createState.allIds
  /\ current = createState.current
  /\ currentById = createState.currentById
  /\ active = createState.active
  /\ heap = createState.heap
  /\ now = 0
  /\ last = Op("createState", Null, FALSE)
  /\ returned = NoCall
  /\ second = NoContainer

CreateOne(payload) ==
  /\ Tick
  /\ Set(createOne(State, payload, now'))
  /\ last' = Op("createOne", Get(payload, IdKey), Stored(State, Get(payload, IdKey)))

CreateMany(payload) ==
  /\ Tick
  /\ Set(createMany(State, payload, now'))
  /\ last' = Op("createMany", Null, FALSE)

UpdateOne(id, payload) ==
  /\ Tick
  /\ Set(updateOne(State, id, payload, now'))
  /\ last' = Op("updateOne", id, Stored(State, id))

UpdateMany(payload) ==
  /\ Tick
  /\ Set(updateMany(State, payload, now'))
  /\ last' = Op("updateMany", Null, FALSE)

DeleteOne(id) ==
  /\ Tick
  /\ Set(deleteOne(State, id))
  /\ last' = Op("deleteOne", id, Stored(State, id))

DeleteMany(ids) ==
  /\ Tick
  /\ Set(deleteMany(State, ids))
  /\ last' = Op("deleteMany", Null, FALSE)

SetCurrent(payload) ==
  /\ Tick
  /\ Set(setCurrent(State, payload, now'))
  /\ last' = Op("setCurrent", Get(payload, IdKey), Stored(State, Get(payload, IdKey)))

RemoveCurrent ==
  /\ Tick
  /\ Set(removeCurrent(State))
  /\ last' = Op("removeCurrent", Null, FALSE)

SetCurrentById(id) ==
  /\ Tick
  /\ Set(setCurrentById(State, id))
  /\ last' = Op("setCurrentById", id, Stored(State, id))

RemoveCurrentById ==
  /\ Tick
  /\ Set(removeCurrentById(State))
  /\ last' = Op("removeCurrentById", Null, FALSE)

SetActive(id) ==
  /\ Tick
  /\ Set(setActive(State, id))
  /\ last' = Op("setActive", id, Stored(State, id))

ResetActive ==
  /\ Tick
  /\ Set(resetActive(State))
  /\ last' = Op("resetActive", Null, FALSE)

SetIsDirty(id) ==
  /\ Tick
  /\ Set(setIsDirty(State, id))
  /\ last' = Op("setIsDirty", id, Stored(State, id))

SetIsNotDirty(id) ==
  /\ Tick
  /\ Set(setIsNotDirty(State, id))
  /\ last' = Op("setIsNotDirty", id, Stored(State, id))

UpdateField(field, value, id) ==
  /\ Tick
  /\ Set(updateField(State, field, value, id, now'))
  /\ last' = Op("updateField", id, Stored(State, id))

\* a direct write on the wrapped entity held as current: getCurrent()[field] = value
WriteCurrent(field, value) ==
  /\ current # NoEntity
  /\ Tick
  /\ LET px == ProxySet([obj |-> current, heap |-> heap], field, value, now')
     IN Set([State EXCEPT !.current = px.obj, !.heap = px.heap])
  /\ last' = Op("writeCurrent", Null, FALSE)

Next ==
  \/ \E payload \in Entities : CreateOne(payload)
  \/ \E payload \in Lists(ManyEntities) : CreateMany(payload)
  \/ \E id \in Ids : \E payload \in UpdatePayloads(State, id) : UpdateOne(id, payload)
  \/ \E payload \in Lists(ManyEntities) : UpdateMany(payload)
  \/ \E id \in Ids : DeleteOne(id)
  \/ \E ids \in Lists(NumIds) : DeleteMany(ids)
  \/ \E payload \in CurrentEntities : SetCurrent(payload)
  \/ RemoveCurrent
  \/ \E id \in Ids : SetCurrentById(id)
  \/ RemoveCurrentById
  \/ \E id \in Ids : SetActive(id)
  \/ ResetActive
  \/ \E id \in Ids : SetIsDirty(id)
  \/ \E id \in Ids : SetIsNotDirty(id)
  \/ \E id \in Ids : \E field \in AllFields : \E value \in ValuesOf(field) :
       UpdateField(field, value, id)
  \/ \E field \in FieldNames : \E value \in ValuesOf(field) :
       WriteCurrent(field, value)

Spec == Init /\ [][Next]_vars

----------------------------------------------------------------------------
(* The selection and delete operations on a stocked store *)

\* the lists without repetition of elements of S
Arrangements(S) ==
  UNION {{l \in [1 .. Cardinality(T) -> T] :
            \A i, j \in 1 .. Cardinality(T) : l[i] = l[j] => i = j} :
         T \in SUBSET S}

StockEntities == {<<Prop(IdKey, id), Prop("name", 1)>> : id \in StockIds \ StrIds}

RECURSIVE Activate(_, _)
\* setActive called for each identifier of ids in turn
Activate(s, ids) ==
  IF ids = <<>> THEN s ELSE Activate(setActive(s, Head(ids)), Tail(ids))

\* the store after createMany(es) at time 1 and setActive of some identifiers
InitStocked ==
  /\ \E es \in Arrangements(StockEntities) :
       \E ids \in Arrangements(StockIds \ StrIds) :
         LET s == Activate(createMany(createState, es, 1), ids)
         IN /\ byId = s.byId
            /\ allIds = s.allIds
            /\ current = s.current
            /\ currentById = s.currentById
            /\ active = s.active
            /\ heap = s.heap
  /\ now = 1
  /\ last = Op("createMany", Null, FALSE)
  /\ returned = NoCall
  /\ second = NoContainer

NextStocked ==
  \/ \E id \in StockIds : DeleteOne(id)
  \/ \E ids \in Lists(NumIds) : DeleteMany(ids)
  \/ \E id \in StockIds : SetActive(id)
  \/ ResetActive
  \/ \E id \in StockIds : SetCurrentById(id)
  \/ RemoveCurrentById
  \/ \E payload \in CurrentEntities : SetCurrent(payload)

SpecStocked == InitStocked /\ [][NextStocked]_vars

----------------------------------------------------------------------------
(* The getters called on a stocked store *)

QueryIds == StockIds

\* the arguments given to the getters
QueryFilters ==
  {NotCallable, Is(IdKey, Num(1))} \cup {AtLeast("name", v) : v \in Values}
QueryOptions ==
  {NoOptions, Options(Absent, "desc"), Options(Field(IdKey), "desc"),
   Options(Function(IdKey), "omitted")}
    \cup {Options(Field("name"), sortBy) : sortBy \in {"asc", "desc", "omitted"}}
DuplicateFlags == {"true", "false", "omitted"}

\* the store after createMany, at time 1, of entities with the identifiers ids
\* in that order
InitQuery ==
  /\ \E ids \in Arrangements(QueryIds) :
       \E names \in [1 .. Len(ids) -> Values] :
         LET es == [i \in 1 .. Len(ids) |->
                      <<Prop(IdKey, ids[i]), Prop("name", names[i])>>]
             s == createMany(createState, es, 1)
         IN /\ byId = s.byId
            /\ allIds = s.allIds
            /\ current = s.current
            /\ currentById = s.currentById
            /\ active = s.active
            /\ heap = s.heap
  /\ now = 1
  /\ last = Op("createMany", Null, FALSE)
  /\ returned = NoCall
  /\ second = NoContainer

\* A getter reads the store and changes nothing, so that a second call would
\* find the store of the first: a behaviour is some deletions, then one call of
\* a getter.
ReadOnly ==
  UNCHANGED <<byId, allIds, current, currentById, active, heap, now, last, second>>

GetMissingIds(ids, canHaveDuplicates) ==
  /\ returned = NoCall
  /\ returned' = [fn |-> "getMissingIds", ids |-> ids,
                  canHaveDuplicates |-> canHaveDuplicates,
                  value |-> getMissingIds(State, ids, canHaveDuplicates)]
  /\ ReadOnly

GetWhere(filter, options) ==
  /\ returned = NoCall
  /\ returned' = [fn |-> "getWhere", filter |-> filter, options |-> options,
                  value |-> getWhere(State, filter, options)]
  /\ ReadOnly

GetWhereArray(filter, options) ==
  /\ returned = NoCall
  /\ returned' = [fn |-> "getWhereArray", filter |-> filter, options |-> options,
                  value |-> getWhereArray(State, filter, options)]
  /\ ReadOnly

GetFirstWhere(filter) ==
  /\ returned = NoCall
  /\ returned' = [fn |-> "getFirstWhere", filter |-> filter,
                  value |-> getFirstWhere(State, filter)]
  /\ ReadOnly

\* deleteOne called before any getter is
DeleteBefore(id) ==
  /\ returned = NoCall
  /\ DeleteOne(id)

NextQuery ==
  \/ \E id \in QueryIds : DeleteBefore(id)
  \/ \E ids \in Lists(QueryIds) : \E canHaveDuplicates \in DuplicateFlags :
       GetMissingIds(ids, canHaveDuplicates)
  \/ \E filter \in QueryFilters : \E options \in QueryOptions : GetWhere(filter, options)
  \/ \E filter \in QueryFilters : \E options \in QueryOptions : GetWhereArray(filter, options)
  \/ \E filter \in QueryFilters : GetFirstWhere(filter)

SpecQuery == InitQuery /\ [][NextQuery]_vars

----------------------------------------------------------------------------
(* sortEntities called on lists of wrapped entities *)

\* the keys the entities of a list are sorted by: numbers and strings of which
\* 9 < 10 as numbers, "10" < "5" < "9" as strings
SortKeys == {Num(9), Num(10), Str(5), Str(10)}

\* the wrapped entities at place i of a list: an entity whose id is i, without
\* a name or with a name of SortKeys
SortEntitiesAt(i) ==
  {[fields |-> fields, after |-> {}, isDirty |-> FALSE, meta |-> Null] :
     fields \in {(IdKey :> Num(i))}
                  \cup {(IdKey :> Num(i)) @@ ("name" :> key) : key \in SortKeys}}

SortLists ==
  UNION {{l \in [1 .. n -> UNION {SortEntitiesAt(i) : i \in 1 .. n}] :
            \A i \in 1 .. n : l[i] \in SortEntitiesAt(i)} : n \in 0 .. MaxList}

SortOptions ==
  {NoOptions, Options(Absent, "desc")}
    \cup {Options(orderBy, sortBy) :
            orderBy \in {Field("name"), Function("name"), Field(IdKey)},
            sortBy \in {"asc", "desc", "omitted"}}

\* a list at hand, before any call
Given(entities) == [fn |-> "given", value |-> entities]

InitSort ==
  /\ byId = createState.byId
  /\ allIds = createState.allIds
  /\ current = createState.current
  /\ currentById = createState.currentById
  /\ active = createState.active
  /\ heap = createState.heap
  /\ now = 0
  /\ last = Op("createState", Null, FALSE)
  /\ \E entities \in SortLists : returned = Given(entities)
  /\ second = NoContainer

\* sortEntities(list, options) for the list at hand: the list given at first or
\* the one the last call returned; again tells that the call sorts what the
\* last call returned, with the options of that call
SortEntities(options) ==
  /\ LET call == sortEntities(returned.value, options)
     IN returned' = [fn |-> "sortEntities", given |-> returned.value,
                     options |-> options, entities |-> call.entities,
                     value |-> call.value, copied |-> call.copied,
                     again |-> returned.fn = "sortEntities" /\ returned.options = options]
  /\ ReadOnly

NextSort == \E options \in SortOptions : SortEntities(options)

SpecSort == InitSort /\ [][NextSort]_vars

----------------------------------------------------------------------------
(* Two containers, each with its own actions *)

Containers == {1, 2}
Container(c) == IF c = 1 THEN State ELSE second.state

InitTwo ==
  /\ byId = createState.byId
  /\ allIds = createState.allIds
  /\ current = createState.current
  /\ currentById = createState.currentById
  /\ active = createState.active
  /\ heap = createState.heap
  /\ second = createStateAfter(createState)
  /\ now = 0
  /\ last = [on |-> 0] @@ Op("createState", Null, FALSE)
  /\ returned = NoCall

\* operation op of the actions of container c, called with id, makes s of it
On(c, op, id, s) ==
  /\ IF c = 1
     THEN /\ Write(s)
          /\ second' = [state |-> Seen(second.state, Collect(s), second.shares, op),
                        shares |-> second.shares \ Reassigned(op)]
     ELSE /\ Write(Seen(State, Collect(s), second.shares, op))
          /\ second' = [state |-> Collect(s),
                        shares |-> second.shares \ Reassigned(op)]
  /\ last' = [on |-> c, op |-> op, id |-> id, hit |-> Stored(Container(c), id),
              act |-> Includes(Container(c).active, id)]
  /\ returned' = returned

CreateOneOn(c, payload) ==
  /\ Tick
  /\ On(c, "createOne", Get(payload, IdKey), createOne(Container(c), payload, now'))

DeleteOneOn(c, id) ==
  /\ Tick
  /\ On(c, "deleteOne", id, deleteOne(Container(c), id))

SetActiveOn(c, id) ==
  /\ Tick
  /\ On(c, "setActive", id, setActive(Container(c), id))

ResetActiveOn(c) ==
  /\ Tick
  /\ On(c, "resetActive", Null, resetActive(Container(c)))

NextTwo ==
  \/ \E c \in Containers : \E payload \in CurrentEntities : CreateOneOn(c, payload)
  \/ \E c \in Containers : \E id \in Ids : DeleteOneOn(c, id)
  \/ \E c \in Containers : \E id \in Ids : SetActiveOn(c, id)
  \/ \E c \in Containers : ResetActiveOn(c)

SpecTwo == InitTwo /\ [][NextTwo]_vars

----------------------------------------------------------------------------
(* createMany and updateMany called on a stocked store *)

\* the entities the store holds before the call: any of the identifiers, in
\* any order
BatchStock == {<<Prop(IdKey, id), Prop("name", 0)>> : id \in Ids}

\* the store after createMany(es) at time 1
InitBatch ==
  /\ \E es \in Arrangements(BatchStock) :
       LET s == createMany(createState, es, 1)
       IN /\ byId = s.byId
          /\ allIds = s.allIds
          /\ current = s.current
          /\ currentById = s.currentById
          /\ active = s.active
          /\ heap = s.heap
  /\ now = 1
  /\ last = Op("createMany", Null, FALSE)
  /\ returned = NoCall
  /\ second = NoContainer

\* the first call on the stocked store is createMany(payload)
CreateBatch(payload) ==
  /\ now = 1
  /\ CreateMany(payload)

\* the first call on the stocked store is updateMany(payload)
UpdateBatch(payload) ==
  /\ now = 1
  /\ UpdateMany(payload)

NextBatch ==
  \/ \E payload \in Lists(Entities) : CreateBatch(payload)
  \/ \E payload \in Lists(Entities) : UpdateBatch(payload)

SpecBatch == InitBatch /\ [][NextBatch]_vars

----------------------------------------------------------------------------
(* createOne followed by deleteOne on a stocked store *)

\* the store after createMany(es) at time 0, with all or none of its
\* identifiers made active
InitRound ==
  /\ \E es \in Arrangements(BatchStock) :
       \E activated \in BOOLEAN :
         LET made == createMany(createState, es, 0)
             s == IF activated THEN Activate(made, made.allIds) ELSE made
         IN /\ byId = s.byId
            /\ allIds = s.allIds
            /\ current = s.current
            /\ currentById = s.currentById
            /\ active = s.active
            /\ heap = s.heap
  /\ now = 0
  /\ last = Op("createMany", Null, FALSE)
  /\ returned = NoCall
  /\ second = NoContainer

\* the state container as it is before a call, kept by the caller to compare
Before(id) == [fn |-> "before", id |-> id, at |-> now, state |-> State]

\* createOne(payload), the caller having kept what the container held
CreateOneNoted(payload) ==
  /\ Tick
  /\ Write(createOne(State, payload, now'))
  /\ returned' = Before(Get(payload, IdKey))
  /\ second' = second
  /\ last' = Op("createOne", Get(payload, IdKey), Stored(State, Get(payload, IdKey)))

NextRound ==
  \/ \E payload \in Entities : CreateOneNoted(payload)
  \/ \E id \in Ids : DeleteOne(id)
  \/ \E id \in Ids : SetCurrentById(id)
  \/ \E payload \in CurrentEntities : SetCurrent(payload)

SpecRound == InitRound /\ [][NextRound]_vars

----------------------------------------------------------------------------
(* Field writes on a store that holds one entity *)

\* the store after createOne(entity) at time 1
InitWrite ==
  /\ \E entity \in Entities :
       LET s == createOne(createState, entity, 1)
       IN /\ byId = s.byId
          /\ allIds = s.allIds
          /\ current = s.current
          /\ currentById = s.currentById
          /\ active = s.active
          /\ heap = s.heap
  /\ now = 1
  /\ last = Op("createOne", Null, FALSE)
  /\ returned = NoCall
  /\ second = NoContainer

\* updateOne(id, payload) on a stored identifier
UpdateStored(id, payload) ==
  /\ Stored(State, id)
  /\ UpdateOne(id, payload)

\* updateField(field, value, id) on a stored identifier
UpdateFieldStored(field, value, id) ==
  /\ Stored(State, id)
  /\ UpdateField(field, value, id)

NextWrite ==
  \/ \E id \in Ids : \E payload \in UpdatePayloads(State, id) :
       UpdateStored(id, payload)
  \/ \E id \in Ids : \E field \in AllFields : \E value \in ValuesOf(field) :
       UpdateFieldStored(field, value, id)
  \/ \E payload \in CurrentEntities : SetCurrent(payload)

SpecWrite == InitWrite /\ [][NextWrite]_vars

----------------------------------------------------------------------------
(* Properties *)

Entity(id) == getOne(State, id)
LastStored == last.id \in Ids /\ Stored(State, last.id)
\* the step is a call of the operation name with the identifier id
IsCall(name, id) == last'.op = name /\ last'.id = id
\* the step is a call that can remove or replace a stored wrapped entity
IsCreateOrDelete ==
  \/ last'.op \in {"createOne", "createMany", "updateMany", "deleteOne", "deleteMany"}
  \/ last'.op = "updateOne" /\ ~last'.hit
NoDuplicates(seq) == \A i, j \in 1 .. Len(seq) : seq[i] = seq[j] => i = j

\* C1: in every state reached through the Mutation Set, for every identifier
\* id (number or string), getOne(id) is defined exactly when
\* isAlreadyInStore(id) is true.
C1_KeysMatchAllIds ==
  \A id \in Ids : (getOne(State, id) # Undefined) <=> isAlreadyInStore(State, id)

\* C2: after any sequence of create and update calls, interleaved with the
\* other operations, allIds contains each identifier at most once.
C2_AllIdsUnique == NoDuplicates(allIds)

\* createOne was just called again for an identifier that allIds already held
C2_Witness ==
  /\ last.op = "createOne"
  /\ last.hit
  /\ isAlreadyInStore(State, last.id)
  /\ Len(allIds) >= 2

\* C3: for every wrapped entity stored in byId or held as current, isDirty is
\* true if and only if meta.changedFields is non-empty.  Stated here for the
\* direction the tracked writes establish, on a field other than the id: an
\* entity with a changed field recorded is dirty.
C3_ChangedImpliesDirty ==
  /\ \A id \in Ids :
       (Stored(State, id) /\ Entity(id).changedFields \cap FieldNames # {})
       => Entity(id).isDirty
  /\ current # NoEntity =>
       (getCurrent(State).changedFields \cap FieldNames # {}
        => getCurrent(State).isDirty)

\* C4: once a field mutation has made the entity stored under id dirty (isDirty
\* true with a changed field recorded), isDirty(id) stays true in the next state
\* unless the step is setIsNotDirty on that entry; stated for the steps that
\* keep the same wrapper stored (neither deleted nor replaced by a create).
C4_DirtyUntilReset ==
  [][\A id \in Ids :
       ( /\ Stored(State, id)
         /\ isDirty(State, id)
         /\ Entity(id).changedFields \cap FieldNames # {}
         /\ ~(last'.op = "setIsNotDirty" /\ Key(last'.id) = Key(id))
         /\ ~IsCreateOrDelete )
       => isDirty(State', id)]_vars

\* C5: for every identifier id with no entry in byId and every payload e,
\* updateOne(id, e) yields the same byId and allIds as createOne(e).
C5_UpsertIsCreate ==
  [][\A id \in Ids :
       (IsCall("updateOne", id) /\ ~Stored(State, id))
       => \A e \in UpdatePayloads(State, id) :
            UpdateOne(id, e)
            => /\ byId' = Collect(createOne(State, e, now')).byId
               /\ heap' = Collect(createOne(State, e, now')).heap
               /\ allIds' = createOne(State, e, now').allIds]_vars

\* updateOne was just called for an identifier with no entry in byId and stored
\* an entity
C5_Witness ==
  /\ last.op = "updateOne"
  /\ ~last.hit
  /\ DOMAIN byId # {}
  /\ Len(allIds) >= 2

\* C6: immediately after deleteOne(id), getOne(id) is undefined,
\* isAlreadyInStore(id) is false and isAlreadyActive(id) is false.
C6_DeleteComplete ==
  last.op = "deleteOne" =>
    /\ getOne(State, last.id) = Undefined
    /\ ~isAlreadyInStore(State, last.id)
    /\ ~isAlreadyActive(State, last.id)

\* deleteOne just removed a stored entity while others stay stored and active
C6_Witness ==
  /\ last.op = "deleteOne"
  /\ last.hit
  /\ Len(allIds) >= 1
  /\ Len(active) >= 1

C8_UpdateFieldTracks ==
  [][\A id \in Ids : \A f \in AllFields : \A v \in ValuesOf(f) :
       ( /\ IsCall("updateField", id)
         /\ Stored(State, id)
         /\ f \in DOMAIN byId[Key(id)].fields
         /\ UpdateField(f, v, id) )
       => LET old == Entity(id)
              new == getOne(State', id)
          IN /\ new.fields[f] = v
             /\ IF old.fields[f] # v
                THEN /\ new.isDirty
                     /\ new.changedFields = old.changedFields \cup {f}
                     /\ new.updatedAt = now'
                ELSE /\ new.isDirty = old.isDirty
                     /\ new.changedFields = old.changedFields
                     /\ new.updatedAt = old.updatedAt]_vars

\* updateField just changed the name of a stored entity that an earlier write
\* had already marked
C8_Witness ==
  /\ last.op = "updateField"
  /\ LastStored
  /\ Entity(last.id).isDirty
  /\ "name" \in Entity(last.id).changedFields
  /\ Entity(last.id).updatedAt = now
  /\ Entity(last.id).createdAt < now

\* C9: after updateOne(id, payload) on an id present in byId, every field named
\* in payload holds the payload's value, and if at least one payload field
\* differed from the stored value then isDirty(id) is true and each differing
\* field is in changedFields.  Stated for the payload fields other than the id
\* that the stored entity already has, and for the payloads that are an entity
\* or a copy of the entity stored under id.
C9_UpdateOneMarksDirty ==
  [][\A id \in Ids :
       \A payload \in IF IsCall("updateOne", id) /\ Stored(State, id)
                      THEN {p \in UpdatePayloads(State, id) :
                              MetaKey \in Keys(p) => Get(p, MetaKey) = byId[Key(id)].meta}
                      ELSE {} :
       UpdateOne(id, payload)
       => LET old == Entity(id)
              new == getOne(State', id)
              named == Keys(payload) \ {IsDirtyKey, MetaKey}
              differing == {f \in named \cap DOMAIN old.fields \cap FieldNames :
                              old.fields[f] # Get(payload, f)}
          IN /\ \A f \in named : new.fields[f] = Get(payload, f)
             /\ differing # {} => (new.isDirty /\ differing \subseteq new.changedFields)]_vars

\* C10: updateOne(id, payload) on an id present in byId leaves every field of
\* the entity that payload does not name unchanged, keeps the same wrapper
\* (meta.createdAt preserved), and leaves allIds, active, current and
\* currentById unchanged.
C10_UpdateOneFrame ==
  [][\A id \in Ids :
       \A payload \in IF IsCall("updateOne", id) /\ Stored(State, id)
                      THEN UpdatePayloads(State, id) ELSE {} :
       UpdateOne(id, payload)
       => LET old == Entity(id)
              new == getOne(State', id)
          IN /\ \A f \in DOMAIN old.fields \ Keys(payload) :
                  f \in DOMAIN new.fields /\ new.fields[f] = old.fields[f]
             /\ new.createdAt = old.createdAt
             /\ DOMAIN byId' = DOMAIN byId
             /\ allIds' = allIds
             /\ active' = active
             /\ getCurrent(State') = getCurrent(State)
             /\ currentById' = currentById]_vars

\* the fields an entity or payload gives, as the wrapped entity holds them
FieldsOf(payload) ==
  [key \in Keys(payload) \ {IsDirtyKey, MetaKey} |-> Get(payload, key)]
\* a wrapped entity just made from payload at time t
FreshCopy(payload, t) ==
  [fields |-> FieldsOf(payload), isDirty |-> FALSE, changedFields |-> {},
   createdAt |-> t, updatedAt |-> Null]

\* C11: createOne(e) when e.id is already in byId replaces the stored entity
\* wholesale (its fields are exactly those of e, isDirty is false and
\* changedFields is empty afterwards) while allIds and active are unchanged.
C11_CreateOneReplaces ==
  [][\A id \in Ids :
       (IsCall("createOne", id) /\ Stored(State, id))
       => \A e \in {p \in Entities : Get(p, IdKey) = id} :
            CreateOne(e)
            => /\ getOne(State', id).fields = FieldsOf(e)
               /\ ~isDirty(State', id)
               /\ getOne(State', id).changedFields = {}
               /\ allIds' = allIds
               /\ active' = active]_vars

\* createOne just replaced a stored, active entity of an earlier time by one
\* without a name
C11_Witness ==
  /\ last.op = "createOne"
  /\ last.hit
  /\ LastStored
  /\ "name" \notin DOMAIN Entity(last.id).fields
  /\ Entity(last.id).createdAt = now
  /\ now >= 3
  /\ isAlreadyActive(State, last.id)

Elements(seq) == {seq[i] : i \in 1 .. Len(seq)}
Index(seq, x) == CHOOSE i \in 1 .. Len(seq) : seq[i] = x
\* the identifiers that old and new both hold stand in the same order in both,
\* and those only new holds come after them
OrderKept(old, new) ==
  /\ \A x, y \in Elements(old) \cap Elements(new) :
       Index(old, x) < Index(old, y) <=> Index(new, x) < Index(new, y)
  /\ \A x \in Elements(old) \cap Elements(new) :
       \A y \in Elements(new) \ Elements(old) : Index(new, x) < Index(new, y)

\* C14: in every reachable state active contains no identifier twice, and the
\* identifiers it contains appear in the order in which they were activated:
\* every step keeps the order of those that stay and puts a new one last.
C14_ActiveOrdered ==
  /\ NoDuplicates(active)
  /\ [][NoDuplicates(active') /\ OrderKept(active, active')]_vars

\* deleteOne just removed an active identifier and left two or more others
\* active
C14_Witness ==
  /\ last.op = "deleteOne"
  /\ last.act
  /\ Len(active) >= 2

C16_CurrentByIdResolves ==
  getCurrentById(State) =
    IF currentById = Null THEN NoEntity ELSE getOne(State, currentById)

\* C17: setCurrentById(id) sets currentById to id when id is in byId; when id
\* is not in byId, currentById keeps its previous value; nothing else in the
\* state changes.
C17_SetCurrentByIdGuarded ==
  [][\A id \in Ids :
       (IsCall("setCurrentById", id) /\ SetCurrentById(id))
       => /\ currentById' = IF Stored(State, id) THEN id ELSE currentById
          /\ UNCHANGED <<byId, allIds, current, active, heap>>]_vars

\* setCurrentById was just called for an identifier byId does not hold, and
\* currentById still points at the identifier set before
C17_Witness ==
  /\ last.op = "setCurrentById"
  /\ ~last.hit
  /\ currentById # Null
  /\ currentById # last.id
  /\ Stored(State, currentById)

\* C18: setCurrent(e) changes nothing but current (the stored entities, allIds,
\* active and currentById are unchanged whether or not e.id is in the store),
\* and an updateOne, updateField or deleteOne changes neither the fields nor
\* the dirty flag of current.
C18_CurrentIndependent ==
  [][/\ \A e \in IF last'.op = "setCurrent" THEN CurrentEntities ELSE {} :
          SetCurrent(e)
          => /\ DOMAIN byId' = DOMAIN byId
             /\ \A id \in Ids : getOne(State', id) = getOne(State, id)
             /\ UNCHANGED <<allIds, active, currentById>>
     /\ (last'.op \in {"updateOne", "updateField", "deleteOne"} /\ current # NoEntity)
          => /\ current' # NoEntity
             /\ current'.fields = current.fields
             /\ current'.isDirty = current.isDirty]_vars

\* updateOne just changed the name of the stored entity whose id current
\* carries, and current still has the name it was wrapped with
C18_Witness ==
  /\ last.op = "updateOne"
  /\ last.hit
  /\ LastStored
  /\ current # NoEntity
  /\ current.fields[IdKey] = last.id
  /\ "name" \in DOMAIN Entity(last.id).fields
  /\ Entity(last.id).fields["name"] # current.fields["name"]
  /\ ~current.isDirty

\* C19: for an identifier absent from byId, each of setIsDirty, setIsNotDirty,
\* updateField, setActive, setCurrentById and deleteOne leaves the entire state
\* container (byId, allIds, current, currentById, active) unchanged.
C19_AbsentIsNoOp ==
  [][( /\ last'.op \in {"setIsDirty", "setIsNotDirty", "updateField",
                         "setActive", "setCurrentById", "deleteOne"}
       /\ ~last'.hit )
     => UNCHANGED <<byId, allIds, current, currentById, active, heap>>]_vars

RECURSIVE FirstInsertions(_, _)
\* the identifiers of ids that seen does not hold, each once, in the order of
\* their first appearance
FirstInsertions(seen, ids) ==
  IF ids = <<>> THEN <<>>
  ELSE IF Includes(seen, Head(ids)) THEN FirstInsertions(seen, Tail(ids))
  ELSE <<Head(ids)>> \o FirstInsertions(Append(seen, Head(ids)), Tail(ids))

\* C20: allIds lists identifiers in order of first insertion: createMany(es)
\* appends the ids of es that the store does not hold yet, in the order they
\* first appear in es, ids already stored keep their position, and
\* createMany([]) changes nothing.
C20_CreateManyAppends ==
  [][\A es \in IF last'.op = "createMany" THEN Lists(ManyEntities) ELSE {} :
       CreateMany(es)
       => /\ allIds' = allIds \o FirstInsertions(allIds, [i \in 1 .. Len(es) |->
                                                           Get(es[i], IdKey)])
          /\ es = <<>> => UNCHANGED <<byId, current, currentById, active, heap>>]_vars

\* the elements of seq at the positions of K, in their order
At(seq, K) ==
  LET position(n) == CHOOSE i \in K : Cardinality({j \in K : j < i}) = n - 1
  IN [n \in 1 .. Cardinality(K) |-> seq[position(n)]]

\* C21: getMissingIds(ids, canHaveDuplicates) returns, in the order of ids, the
\* members of ids that allIds does not hold: every occurrence of each when
\* canHaveDuplicates is true, only the first occurrence of each when it is
\* false or omitted.  Hence it returns [] when allIds holds every member of
\* ids, and the extra identifiers when ids is allIds followed by distinct
\* identifiers that allIds does not hold.
C21_MissingIds ==
  returned.fn = "getMissingIds" =>
    LET ids == returned.ids
        missing == {i \in 1 .. Len(ids) : ids[i] \notin Elements(allIds)}
        first == {i \in missing : \A j \in 1 .. i - 1 : ids[j] # ids[i]}
    IN /\ returned.value =
            At(ids, IF returned.canHaveDuplicates = "true" THEN missing ELSE first)
       /\ missing = {} => returned.value = <<>>
       /\ (/\ Len(ids) >= Len(allIds)
           /\ SubSeq(ids, 1, Len(allIds)) = allIds
           /\ first = Len(allIds) + 1 .. Len(ids))
          => returned.value = SubSeq(ids, Len(allIds) + 1, Len(ids))

\* getMissingIds was asked twice for an identifier allIds does not hold, and
\* once for one it holds, and told to drop the duplicates
C21_Witness ==
  /\ returned.fn = "getMissingIds"
  /\ returned.canHaveDuplicates = "omitted"
  /\ Len(returned.ids) = MaxMany
  /\ \E i, j \in 1 .. Len(returned.ids) :
       i < j /\ returned.ids[i] = returned.ids[j]
             /\ returned.ids[i] \notin Elements(allIds)
  /\ allIds # <<>>
  /\ Len(returned.value) < Len(returned.ids)

\* the stored entities that pass the filter of the last call
Matches ==
  {byId[Key(id)] : id \in {i \in Elements(allIds) :
                              Stored(State, i) /\ Test(returned.filter, byId[Key(i)])}}

\* the place in allIds of the identifier an entity carries
Place(entity) == Index(allIds, entity.fields[IdKey])

\* C22: getWhereArray(p) without orderBy returns the stored entities that
\* satisfy p, in the order of their identifiers in allIds.
C22_WhereArrayInAllIdsOrder ==
  (/\ returned.fn = "getWhereArray"
   /\ returned.filter.callable
   /\ NoOrderBy(returned.options))
  => /\ Elements(returned.value) = Matches
     /\ \A i, j \in 1 .. Len(returned.value) :
          i < j => Place(returned.value[i]) < Place(returned.value[j])

\* C23: getFirstWhere(p), for a function p, returns the entity of the first
\* identifier of allIds whose stored entity satisfies p, and undefined when no
\* stored entity satisfies p.
C23_FirstWhereInAllIdsOrder ==
  (returned.fn = "getFirstWhere" /\ returned.filter.callable)
  => LET passing == {i \in 1 .. Len(allIds) :
                       /\ Stored(State, allIds[i])
                       /\ Test(returned.filter, byId[Key(allIds[i])])}
     IN IF passing = {}
        THEN returned.value = Undefined
        ELSE returned.value =
               byId[Key(allIds[CHOOSE i \in passing : \A j \in passing : i <= j])]

\* key u does not come after key v in ascending order: an absent key is
\* lowest, two numbers stand as numbers, other keys as their strings
NotAfter(u, v) == u = Null \/ (v # Null /\ ~Less(v, u))

\* the call sorts in descending order
Descending(options) == options.sortBy = "desc"

\* C24: getWhereArray(p, {orderBy, sortBy}) returns the stored entities that
\* satisfy p, each once, in ascending order of the orderBy key when sortBy is
\* 'asc' or omitted and in descending order when it is 'desc'.
C24_WhereArraySorted ==
  (/\ returned.fn = "getWhereArray"
   /\ returned.filter.callable
   /\ ~NoOrderBy(returned.options))
  => LET value == returned.value
         key(i) == Read(value[i], returned.options.orderBy.name)
     IN /\ Elements(value) = Matches
        /\ Len(value) = Cardinality(Matches)
        /\ \A i, j \in 1 .. Len(value) :
             i < j => IF Descending(returned.options)
                      THEN NotAfter(key(j), key(i))
                      ELSE NotAfter(key(i), key(j))

\* getWhereArray left one stored entity out and returned the others in
\* descending order of their identifiers, the reverse of the order they have
\* among the keys of byId
C24_Witness ==
  /\ returned.fn = "getWhereArray"
  /\ returned.filter.callable
  /\ returned.options = Options(Field(IdKey), "desc")
  /\ Len(returned.value) > 1
  /\ Len(returned.value) < Cardinality(DOMAIN byId)
  /\ \A i \in 1 .. Len(returned.value) - 1 :
       Key(returned.value[i].fields[IdKey]) > Key(returned.value[i + 1].fields[IdKey])


\* C25: getWhere(p), for a function p, returns a mapping whose keys are the
\* identifiers of allIds whose stored entity satisfies p, each mapped to that
\* stored entity, whatever sort options are passed.
C25_WhereIsMapping ==
  (returned.fn = "getWhere" /\ returned.filter.callable)
  => LET passing == {id \in Elements(allIds) :
                       Stored(State, id) /\ Test(returned.filter, byId[Key(id)])}
     IN /\ DOMAIN returned.value = {Key(id) : id \in passing}
        /\ \A k \in DOMAIN returned.value : returned.value[k] = byId[k]

\* getWhere was given sort options and returned some stored entities, not all
C25_Witness ==
  /\ returned.fn = "getWhere"
  /\ returned.filter.callable
  /\ ~NoOrderBy(returned.options)
  /\ DOMAIN returned.value # {}
  /\ DOMAIN returned.value # DOMAIN byId
  /\ Len(allIds) > Cardinality(DOMAIN byId)


\* C26: given a filter that is not a function, getWhere returns every entry of
\* byId, getWhereArray returns every stored entity, each once, and
\* getFirstWhere returns the first stored entity, the one of the first
\* identifier of allIds that byId holds (undefined if the store is empty).
C26_NotCallableReturnsAll ==
  (returned.fn \in {"getWhere", "getWhereArray", "getFirstWhere"}
     /\ ~returned.filter.callable)
  => LET stored == {i \in 1 .. Len(allIds) : Stored(State, allIds[i])}
     IN /\ returned.fn = "getWhere" => returned.value = byId
        /\ returned.fn = "getWhereArray" =>
             /\ Elements(returned.value) = {byId[k] : k \in DOMAIN byId}
             /\ Len(returned.value) = Cardinality(DOMAIN byId)
        /\ returned.fn = "getFirstWhere" =>
             IF stored = {}
             THEN returned.value = Undefined
             ELSE returned.value =
                    byId[Key(allIds[CHOOSE i \in stored : \A j \in stored : i <= j])]


\* the keys the last call of sortEntities ordered the list by
GivenKeys ==
  {SortValue(returned.given[i], returned.options.orderBy) :
     i \in 1 .. Len(returned.given)}

ValueKey(i) == SortValue(returned.value[i], returned.options.orderBy)

\* C28: when the orderBy keys of a list are each absent or of one common type,
\* sortEntities returns the list with its keys non-decreasing for 'asc' or an
\* omitted sortBy, absent keys first, and non-increasing for 'desc', absent
\* keys last.
C28_SortOrders ==
  (/\ returned.fn = "sortEntities"
   /\ ~NoOrderBy(returned.options)
   /\ Cardinality({TypeOf(k) : k \in GivenKeys} \ {"undefined"}) <= 1)
  => \A i, j \in 1 .. Len(returned.value) :
       i < j => IF returned.options.sortBy = "desc"
                THEN /\ ValueKey(i) = Null => ValueKey(j) = Null
                     /\ ValueKey(j) # Null =>
                          IF TypeOf(ValueKey(j)) = "number"
                          THEN ValueKey(j) <= ValueKey(i)
                          ELSE ~StringLess(Digits(Key(ValueKey(i))), Digits(Key(ValueKey(j))))
                ELSE /\ ValueKey(j) = Null => ValueKey(i) = Null
                     /\ ValueKey(i) # Null =>
                          IF TypeOf(ValueKey(i)) = "number"
                          THEN ValueKey(i) <= ValueKey(j)
                          ELSE ~StringLess(Digits(Key(ValueKey(j))), Digits(Key(ValueKey(i))))

\* a list of as many entities as a list can have, with an absent key and two
\* different keys of one type, was sorted in descending order, which moved
\* every entity
C28_Witness ==
  /\ returned.fn = "sortEntities"
  /\ returned.options.given
  /\ returned.options.orderBy = Field("name")
  /\ returned.options.sortBy = "desc"
  /\ Len(returned.given) = MaxList
  /\ Null \in GivenKeys
  /\ Cardinality(GivenKeys) > 2
  /\ Cardinality({TypeOf(k) : k \in GivenKeys}) = 2
  /\ \A i \in 1 .. Len(returned.given) : returned.value[i] # returned.given[i]
  /\ ValueKey(Len(returned.value)) = Null


\* C29: with orderBy present sortEntities returns a new sequence that holds the
\* elements of the input, each as often as the input does, and leaves the input
\* list in its order; with orderBy absent it returns the input list itself,
\* unchanged.
C29_SortCopies ==
  returned.fn = "sortEntities" =>
    /\ returned.entities = returned.given
    /\ IF NoOrderBy(returned.options)
       THEN ~returned.copied /\ returned.value = returned.given
       ELSE /\ returned.copied
            /\ Len(returned.value) = Len(returned.given)
            /\ \A e \in Elements(returned.given) \cup Elements(returned.value) :
                 Cardinality({i \in 1 .. Len(returned.value) : returned.value[i] = e})
                   = Cardinality({i \in 1 .. Len(returned.given) : returned.given[i] = e})

\* sortEntities returned a list in another order than the one it was given
C29_Witness ==
  /\ returned.fn = "sortEntities"
  /\ ~NoOrderBy(returned.options)
  /\ Len(returned.given) = MaxList
  /\ returned.value # returned.given
  /\ returned.entities = returned.given


\* C30: a container createState() returns is empty (no entity in byId, no
\* identifier in allIds or active, current and currentById null, getIsEmpty()
\* true), and an operation of the actions of one container leaves every other
\* container as it was.
C30_StatesIndependent ==
  /\ \A c \in Containers :
       /\ Container(c).byId = <<>>
       /\ Container(c).allIds = <<>>
       /\ Container(c).current = NoEntity
       /\ Container(c).currentById = Null
       /\ Container(c).active = <<>>
       /\ getIsEmpty(Container(c))
  /\ [][/\ last'.on = 1 => second'.state = second.state
        /\ last'.on = 2 => State' = State]_vars

\* both containers hold entities, one of them an entity the other does not
\* hold, and an identifier is active in one of the two only
C30_Witness ==
  /\ last.on = 2
  /\ allIds # <<>>
  /\ second.state.allIds # <<>>
  /\ DOMAIN byId # DOMAIN second.state.byId
  /\ active # second.state.active


\* the step is a call on id of one of the operations that keep the wrapper
\* stored under id: a field update, a flag change or a pointer change
KeepsWrapper(id) ==
  /\ last'.op \in {"updateOne", "updateField", "setIsDirty", "setIsNotDirty",
                   "setActive", "setCurrentById"}
  /\ last'.id = id
  /\ Stored(State, id)

\* C31: meta.createdAt of a wrapped entity keeps the value set at wrap time for
\* as long as that wrapper is stored: no updateOne, updateField, setIsDirty,
\* setIsNotDirty, setActive or setCurrentById on its id, with any payload or
\* field name, changes it.
C31_CreatedAtImmutable ==
  [][\A id \in Ids :
       KeepsWrapper(id)
       => /\ Stored(State', id)
          /\ getOne(State', id).createdAt = Entity(id).createdAt]_vars


\* the keys of payload that the wrapped entity stored under id does not have
AbsentKeys(id, payload) ==
  Keys(payload) \ (DOMAIN byId[Key(id)].fields \cup {IsDirtyKey, MetaKey})

\* C32: a write through updateField or updateOne to a key that is not present
\* on the stored wrapped entity adds the key with the written value and leaves
\* isDirty, changedFields and updatedAt unchanged: after updateField of such a
\* key the three are what they were, and after updateOne they are what the
\* payload's other keys alone make them.
C32_NewKeyUntracked ==
  [][\A id \in Ids :
       /\ \A field \in AllFields : \A value \in ValuesOf(field) :
            ( /\ IsCall("updateField", id)
              /\ Stored(State, id)
              /\ field \notin DOMAIN byId[Key(id)].fields
              /\ UpdateField(field, value, id) )
            => LET old == Entity(id)
                   new == getOne(State', id)
               IN /\ field \in DOMAIN new.fields
                  /\ new.fields[field] = value
                  /\ new.isDirty = old.isDirty
                  /\ new.changedFields = old.changedFields
                  /\ new.updatedAt = old.updatedAt
       /\ \A payload \in IF /\ IsCall("updateOne", id)
                            /\ Stored(State, id)
                            /\ AllFields \ DOMAIN byId[Key(id)].fields # {}
                         THEN {p \in UpdatePayloads(State, id) :
                                 AbsentKeys(id, p) # {}}
                         ELSE {} :
            LET after == updateOne(State, id, payload, now')
                others == SelectSeq(payload,
                            LAMBDA p : p.k \notin AbsentKeys(id, payload))
                base == getOne(updateOne(State, id, others, now'), id)
                new == getOne(State', id)
            IN (byId' = after.byId /\ heap' = Collect(after).heap)
               => /\ \A key \in AbsentKeys(id, payload) :
                       /\ key \in DOMAIN new.fields
                       /\ new.fields[key] = Get(payload, key)
                  /\ new.isDirty = base.isDirty
                  /\ new.changedFields = base.changedFields
                  /\ new.updatedAt = base.updatedAt]_vars

\* an entity created without a name has been given one by updateOne, its first
\* write, and is neither dirty nor marked as changed or updated
C32_Witness ==
  /\ last.op = "updateOne"
  /\ last.hit
  /\ now = 2
  /\ "name" \in byId[Key(last.id)].after
  /\ "name" \in DOMAIN Entity(last.id).fields
  /\ ~Entity(last.id).isDirty
  /\ Entity(last.id).changedFields = {}
  /\ Entity(last.id).updatedAt = Null
  /\ Entity(last.id).createdAt = 1


\* C33: in every state reachable through the Mutation Set, for every key k of
\* byId the stored entity's own id field equals k: no updateOne or updateField
\* leaves an entity filed under a key different from its id.
C33_FiledUnderOwnId ==
  \A k \in DOMAIN byId : Key(byId[k].fields[IdKey]) = k


\* C34: in every state reachable through the Mutation Set from createState(),
\* every identifier in active has an entry in byId, for identifiers drawn from
\* both integers and strings.
C34_ActiveStored ==
  \A i \in 1 .. Len(active) : Stored(State, active[i])


\* C35: neither updateOne nor updateField ever changes isDirty of a stored
\* entity from true to false, for any payload and any field name, including a
\* payload built by copying the stored wrapped entity and changing some fields.
C35_UpdateKeepsDirty ==
  [][\A id \in Ids :
       ( /\ last'.op \in {"updateOne", "updateField"}
         /\ last'.id = id
         /\ Stored(State, id)
         /\ isDirty(State, id) )
       => isDirty(State', id)]_vars


\* C36: between wrapping and the next setIsNotDirty, changedFields of a stored
\* entity only grows: a step that keeps the wrapper stored under id and is not
\* setIsNotDirty on it, a write of a field back to its wrap-time value
\* included, removes nothing from changedFields and does not clear isDirty.
C36_ChangedFieldsGrow ==
  [][\A id \in Ids :
       ( /\ Stored(State, id)
         /\ ~IsCreateOrDelete
         /\ ~(last'.op = "setIsNotDirty" /\ Key(last'.id) = Key(id)) )
       => /\ Stored(State', id)
          /\ Entity(id).changedFields \subseteq getOne(State', id).changedFields
          /\ Entity(id).isDirty => getOne(State', id).isDirty]_vars


\* the wrapped entities whose name is a key of SortKeys
Keyed == {e \in UNION {SortEntitiesAt(i) : i \in 1 .. MaxList} :
            "name" \in DOMAIN e.fields}
\* the names of the entities of a list, in the order of the list
Names(entities) == [i \in 1 .. Len(entities) |-> Read(entities[i], "name")]

\* C37: the comparison sortEntities applies is a consistent ordering on keys
\* that mix numbers and strings: it is antisymmetric and transitive, and the
\* ascending result of sorting a list whose keys are pairwise distinct, also
\* once turned into strings, is the same for every order of the input list.
C37_ConsistentOrdering ==
  LET options == Options(Field("name"), "asc")
      before(a, b) == Compare(a, b, options) < 0
  IN /\ \A a, b \in Keyed :
          Compare(a, b, options) = -Compare(b, a, options)
     /\ \A a, b, c \in Keyed : (before(a, b) /\ before(b, c)) => before(a, c)
     /\ ( /\ returned.fn = "sortEntities"
          /\ returned.options = options
          /\ \A i \in 1 .. Len(returned.given) :
               Read(returned.given[i], "name") # Null
          /\ \A i, j \in 1 .. Len(returned.given) :
               Key(Read(returned.given[i], "name"))
                 = Key(Read(returned.given[j], "name")) => i = j )
        => \A p \in Permutations(1 .. Len(returned.given)) :
             Names(sortEntities([i \in 1 .. Len(returned.given) |->
                                   returned.given[p[i]]], options).value)
               = Names(returned.value)


\* the identifiers of the entities of a list, in the order of the list
IdsOf(es) == [i \in 1 .. Len(es) |-> Get(es[i], IdKey)]
\* s and the state have the same allIds and the same entities in byId, as far
\* as their fields, isDirty and changedFields go
SameStore(s) ==
  /\ allIds' = s.allIds
  /\ DOMAIN byId' = DOMAIN s.byId
  /\ \A k \in DOMAIN s.byId :
       /\ byId'[k].fields = s.byId[k].fields
       /\ byId'[k].isDirty = s.byId[k].isDirty
       /\ heap'[byId'[k].meta].changedFields = s.heap[s.byId[k].meta].changedFields

\* C38 as stated: updateMany(es) applied to a store in which none of the ids
\* of es is present yields the same byId (fields, isDirty, changedFields) and
\* allIds as createMany(es), for every list es including lists that repeat an id.
C38_UpdateManyIsCreateMany ==
  [][\A es \in Lists(Entities) :
       ( /\ \A i \in 1 .. Len(es) : ~Stored(State, IdsOf(es)[i])
         /\ UpdateBatch(es) )
       => SameStore(createMany(State, es, now'))]_vars

\* C38, amended: the same for every list es in which no two entities have the
\* same key of byId (the same identifier, or a number and its decimal string).
C38_UpdateManyDistinct ==
  [][\A es \in Lists(Entities) :
       ( /\ \A i \in 1 .. Len(es) : ~Stored(State, IdsOf(es)[i])
         /\ \A i, j \in 1 .. Len(es) :
              Key(IdsOf(es)[i]) = Key(IdsOf(es)[j]) => i = j
         /\ UpdateBatch(es) )
       => SameStore(createMany(State, es, now'))]_vars

\* updateMany has created two entities on an empty store: both are clean,
\* wrapped by the call, and listed in allIds
C38_Witness ==
  /\ last.op = "updateMany"
  /\ now = 2
  /\ Cardinality(DOMAIN byId) = 2
  /\ Len(allIds) = 2
  /\ \A k \in DOMAIN byId :
       /\ heap[byId[k].meta].createdAt = 2
       /\ heap[byId[k].meta].changedFields = {}
       /\ ~byId[k].isDirty



\* deleteOne(id) has just followed a createOne of an entity with that id, and
\* the identifier was in none of byId, allIds and active before the createOne
CreatedThenDeleted ==
  /\ returned.fn = "before"
  /\ last.op = "deleteOne"
  /\ last.id = returned.id
  /\ now = returned.at + 2
  /\ ~Stored(returned.state, returned.id)
  /\ ~Includes(returned.state.allIds, returned.id)
  /\ ~Includes(returned.state.active, returned.id)

\* C39: if id is not stored (absent from byId, allIds and active), createOne
\* of an entity with that id followed by deleteOne(id) restores byId, allIds,
\* active, current and currentById to exactly their values before the
\* createOne.
C39_CreateThenDelete ==
  CreatedThenDeleted
  => /\ byId = returned.state.byId
     /\ allIds = returned.state.allIds
     /\ active = returned.state.active
     /\ current = returned.state.current
     /\ currentById = returned.state.currentById
     /\ heap = returned.state.heap

\* the round trip has been made on a store that holds another entity, has an
\* active identifier and a currentById
C39_Witness ==
  /\ CreatedThenDeleted
  /\ byId # <<>>
  /\ active # <<>>
  /\ currentById # Null

====
